---- MODULE Spec2Model ----
(***************************************************************************)
(* Model of the Brain export ingestion service (src/app.py): upload of a   *)
(* chat-export archive, parse_export (extraction, manifest loading, asset  *)
(* registration, message normalisation, asset linking, categorisation,     *)
(* status bookkeeping) and the operator endpoints rename_category and      *)
(* move_conversation, over a relational store with a committed state and   *)
(* the pending writes of the ingesting connection.                         *)
(*                                                                         *)
(* Representation.  A Python str is a sequence of one-character strings.   *)
(* A nullable value is <<>> (None / SQL NULL) or <<v>>.  A uuid is a fresh *)
(* natural number.  A create_time is counted in whole days since the epoch *)
(* (one unit stands for 86400 epoch seconds), which keeps the calendar     *)
(* limits of datetime inside the integers of the model checker.            *)
(***************************************************************************)
EXTENDS Integers, Sequences, FiniteSets, TLC

VARIABLES
    db,        \* the committed database (what any new connection reads)
    tx,        \* the database as seen by parse_export's connection: db plus its pending writes
    pc,        \* position of the running upload_export/parse_export call, "idle" when none runs
    loc,       \* local variables of the running parse_export call
    outcome,   \* per export: how its parse_export call ended (running, returned, raised + message)
    resp,      \* the last response of rename_category / move_conversation, with its request
    ops        \* number of operator requests served so far

vars == <<db, tx, pc, loc, outcome, resp, ops>>

----------------------------------------------------------------------------
(* Optional values *)

None == <<>>
Some(v) == <<v>>

----------------------------------------------------------------------------
(* Python str operations on sequences of characters *)

UPPER_TO_LOWER ==
    "A" :> "a" @@ "B" :> "b" @@ "C" :> "c" @@ "D" :> "d" @@ "E" :> "e" @@ "F" :> "f" @@
    "G" :> "g" @@ "H" :> "h" @@ "I" :> "i" @@ "J" :> "j" @@ "K" :> "k" @@ "L" :> "l" @@
    "M" :> "m" @@ "N" :> "n" @@ "O" :> "o" @@ "P" :> "p" @@ "Q" :> "q" @@ "R" :> "r" @@
    "S" :> "s" @@ "T" :> "t" @@ "U" :> "u" @@ "V" :> "v" @@ "W" :> "w" @@ "X" :> "x" @@
    "Y" :> "y" @@ "Z" :> "z"

SLUG_CHARS ==
    {"a","b","c","d","e","f","g","h","i","j","k","l","m","n","o","p","q","r","s","t",
     "u","v","w","x","y","z","0","1","2","3","4","5","6","7","8","9"}

WHITESPACE == {" ", "\n", "\t"}

\* str.lower()
Lower(s) ==
    [i \in 1..Len(s) |-> IF s[i] \in DOMAIN UPPER_TO_LOWER THEN UPPER_TO_LOWER[s[i]] ELSE s[i]]

\* needle in hay
Contains(needle, hay) ==
    \E i \in 0..(Len(hay) - Len(needle)) : SubSeq(hay, i + 1, i + Len(needle)) = needle

\* str.strip(chars)
RECURSIVE LStrip(_, _)
LStrip(s, chars) ==
    IF s # <<>> /\ Head(s) \in chars THEN LStrip(Tail(s), chars) ELSE s

RECURSIVE RStrip(_, _)
RStrip(s, chars) ==
    IF s # <<>> /\ s[Len(s)] \in chars THEN RStrip(SubSeq(s, 1, Len(s) - 1), chars) ELSE s

Strip(s, chars) == RStrip(LStrip(s, chars), chars)

\* "\n".join(parts)
RECURSIVE JoinLines(_)
JoinLines(parts) ==
    IF parts = <<>> THEN <<>>
    ELSE IF Len(parts) = 1 THEN parts[1]
    ELSE parts[1] \o <<"\n">> \o JoinLines(Tail(parts))

\* re.sub(r"[^a-z0-9]+", "-", s): every maximal run of other characters becomes one "-"
RECURSIVE SubRuns(_, _)
SubRuns(s, inRun) ==
    IF s = <<>> THEN <<>>
    ELSE IF Head(s) \in SLUG_CHARS THEN <<Head(s)>> \o SubRuns(Tail(s), FALSE)
    ELSE IF inRun THEN SubRuns(Tail(s), TRUE)
    ELSE <<"-">> \o SubRuns(Tail(s), TRUE)

slugify(text) ==
    LET s == Strip(SubRuns(Lower(text), FALSE), {"-"})
    IN  IF s = <<>> THEN <<"c","a","t","e","g","o","r","y">> ELSE s

----------------------------------------------------------------------------
(* Asset classification *)

IMAGE_EXTS ==
    { <<".","p","n","g">>, <<".","j","p","g">>, <<".","j","p","e","g">>, <<".","g","i","f">>,
      <<".","w","e","b","p">>, <<".","b","m","p">>, <<".","s","v","g">> }

AUDIO_EXTS ==
    { <<".","m","p","3">>, <<".","w","a","v">>, <<".","m","4","a">>, <<".","o","g","g">>,
      <<".","f","l","a","c">>, <<".","a","a","c">> }

IGNORE_EXTS ==
    { <<".","j","s","o","n">>, <<".","h","t","m","l">>, <<".","m","d">> }

\* Path(name).suffix: from the last dot, unless that dot is the first or the last character
Suffix(name) ==
    LET dots == {i \in 1..Len(name) : name[i] = "."}
    IN  IF dots = {} THEN <<>>
        ELSE LET i == CHOOSE j \in dots : \A k \in dots : k <= j
             IN  IF 1 < i /\ i < Len(name) THEN SubSeq(name, i, Len(name)) ELSE <<>>

\* None (the file is not an asset) or the asset kind
classify_asset(file_name) ==
    LET ext == Lower(Suffix(file_name))
    IN  IF ext \in IMAGE_EXTS THEN Some("image")
        ELSE IF ext \in AUDIO_EXTS THEN Some("audio")
        ELSE IF ext \in IGNORE_EXTS THEN None
        ELSE Some("file")

----------------------------------------------------------------------------
(* Categorisation rules *)

CATEGORY_RULES ==
    <<
      [name |-> <<"h","o","u","s","i","n","g"," ","c","o","u","r","t"," ","c","a","s","e">>,
       keywords |-> << <<"h","o","u","s","i","n","g"," ","c","o","u","r","t">>,
                       <<"e","v","i","c","t","i","o","n">>,
                       <<"l","e","a","s","e">>,
                       <<"l","a","n","d","l","o","r","d">>,
                       <<"t","e","n","a","n","t">> >>],
      [name |-> <<"d","o","g">>,
       keywords |-> << <<"d","o","g">>,
                       <<"p","u","p","p","y">>,
                       <<"c","a","n","i","n","e">>,
                       <<"v","e","t">> >>],
      [name |-> <<"r","e","s","t","a","u","r","a","n","t">>,
       keywords |-> << <<"r","e","s","t","a","u","r","a","n","t">>,
                       <<"m","e","n","u">>,
                       <<"r","e","s","e","r","v","a","t","i","o","n">>,
                       <<"c","h","e","f">>,
                       <<"d","i","n","i","n","g">> >>]
    >>

UNCATEGORIZED == <<"u","n","c","a","t","e","g","o","r","i","z","e","d">>

UNTITLED == <<"U","n","t","i","t","l","e","d">>

MANIFEST_NAME ==
    <<"c","o","n","v","e","r","s","a","t","i","o","n","s",".","j","s","o","n">>

----------------------------------------------------------------------------
(* Files: a file system is a set of nodes [path, kind, data]; a path is the   *)
(* sequence of its segment names from the root.  The data of a file is        *)
(* [k, items]: k = "blob" (media bytes), "list" (a JSON list, items its       *)
(* records), "object" (JSON that is not a list), "garbage" (not JSON).        *)

DOT == <<".">>

DOTDOT == <<".", ".">>

NoData == [k |-> "none", items |-> <<>>]

Range(s) == {s[i] : i \in 1..Len(s)}

IsPrefix(p, q) == Len(p) <= Len(q) /\ SubSeq(q, 1, Len(p)) = p

\* what the operating system makes of a path: ".." steps to the parent
RECURSIVE ResolveFrom(_, _)
ResolveFrom(acc, segs) ==
    IF segs = <<>> THEN acc
    ELSE IF Head(segs) = DOTDOT
         THEN ResolveFrom(IF acc = <<>> THEN acc ELSE SubSeq(acc, 1, Len(acc) - 1), Tail(segs))
         ELSE ResolveFrom(Append(acc, Head(segs)), Tail(segs))

Resolve(path) == ResolveFrom(<<>>, path)

KindAt(fs, p) ==
    IF \E n \in fs : n.path = p THEN (CHOOSE n \in fs : n.path = p).kind ELSE "none"

\* Path(name).parts of a relative or absolute name: "." and empty segments are dropped
Parts(filename) == SelectSeq(filename.segs, LAMBDA s : s # DOT /\ s # <<>>)

\* extract_to / name: an absolute right operand replaces the left one
JoinPath(base, filename) ==
    IF filename.abs THEN Parts(filename) ELSE base \o Parts(filename)

\* Path.mkdir(parents=True, exist_ok=True)
mkdir_parents(fs, path) ==
    LET p == Resolve(path)
        prefixes == {SubSeq(p, 1, i) : i \in 0..Len(p)}
    IN  IF KindAt(fs, p) = "file"
        THEN [fs |-> fs, raised |-> Some("FileExistsError")]
        ELSE IF \E q \in prefixes : KindAt(fs, q) = "file"
        THEN [fs |-> fs, raised |-> Some("NotADirectoryError")]
        ELSE [fs |-> fs \cup {[path |-> q, kind |-> "dir", data |-> NoData] :
                                 q \in {r \in prefixes : KindAt(fs, r) = "none"}},
              raised |-> None]

\* open(target, "wb") followed by copyfileobj: the file is created or replaced
write_file(fs, path, data) ==
    LET p == Resolve(path)
    IN  IF KindAt(fs, p) = "dir"
        THEN [fs |-> fs, raised |-> Some("IsADirectoryError")]
        ELSE [fs |-> {n \in fs : n.path # p} \cup {[path |-> p, kind |-> "file", data |-> data]},
              raised |-> None]

\* a test that forgets parent-directory segments
is_unsafe_absolute_only(filename) == filename.abs

\* the test of safe_extract that decides whether a member is skipped
is_unsafe(filename) == filename.abs \/ DOTDOT \in Range(Parts(filename))

\* one iteration of the loop of safe_extract
extract_member(fs, extract_to, member) ==
    IF is_unsafe(member.filename)
    THEN [fs |-> fs, raised |-> None]
    ELSE LET target == JoinPath(extract_to, member.filename)
             parent == IF target = <<>> THEN target ELSE SubSeq(target, 1, Len(target) - 1)
             made   == mkdir_parents(fs, parent)
         IN  IF made.raised # None THEN made
             ELSE IF member.filename.dir THEN mkdir_parents(made.fs, target)
             ELSE write_file(made.fs, target, member.data)

----------------------------------------------------------------------------
(* Timestamps.  A create_time is [k, v]: k = "none" (absent or null), "num"   *)
(* (a number, v days since the epoch), "text" (a value float() rejects).      *)

\* datetime.min and datetime.max as days since the epoch (0001-01-01, 9999-12-31)
MIN_DAY == -719162

MAX_DAY == 2932896

\* datetime.isoformat() of a day: the date <<year, month, day>>; ISO strings of
\* four-digit years compare as these triples do
isoformat(day) ==
    LET z   == day + 719468
        era == z \div 146097
        doe == z - era * 146097
        yoe == (doe - doe \div 1460 + doe \div 36524 - doe \div 146096) \div 365
        doy == doe - (365 * yoe + yoe \div 4 - yoe \div 100)
        mp  == (5 * doy + 2) \div 153
        d   == doy - (153 * mp + 2) \div 5 + 1
        m   == IF mp < 10 THEN mp + 3 ELSE mp - 9
        y   == yoe + era * 400 + (IF m <= 2 THEN 1 ELSE 0)
    IN  <<y, m, d>>

\* None, or the ISO timestamp
parse_iso_or_none(ts) ==
    IF ts.k = "none" THEN None
    ELSE IF ts.k = "num" /\ MIN_DAY <= ts.v /\ ts.v <= MAX_DAY THEN Some(isoformat(ts.v))
    ELSE None

\* the key of sorted(nodes, key=sort_key): a float, inf for a missing or rejected value
sort_key(msg) ==
    IF msg.create_time.k = "num"
    THEN [inf |-> FALSE, v |-> msg.create_time.v]
    ELSE [inf |-> TRUE, v |-> 0]

KeyLeq(a, b) == b.inf \/ (~a.inf /\ a.v <= b.v)

\* sorted(nodes, key=sort_key): a stable sort, equal keys keep their input order
RECURSIVE sorted_nodes(_)
sorted_nodes(nodes) ==
    IF nodes = <<>> THEN <<>>
    ELSE LET front == sorted_nodes(SubSeq(nodes, 1, Len(nodes) - 1))
             x     == nodes[Len(nodes)]
             n     == Cardinality({i \in 1..Len(front) : KeyLeq(sort_key(front[i]), sort_key(x))})
         IN  SubSeq(front, 1, n) \o <<x>> \o SubSeq(front, n + 1, Len(front))

----------------------------------------------------------------------------
(* The relational store (init_db).  Rows keep the columns the program        *)
(* decides on; wall-clock created_at columns, byte sizes and checksums are   *)
(* left out.                                                                 *)

EmptyDb ==
    [exports       |-> <<>>,   \* export id -> [status, error_message]
     conversations |-> {},     \* [id, export_id, external_id, title, conversation_date]
     messages      |-> <<>>,   \* in insertion order: [id, export_id, conversation_id, role, content_text, created_at]
     assets        |-> {},     \* [id, export_id, conversation_id, message_id, asset_type, original_name, storage_path]
     categories    |-> {},     \* [id, export_id, name, slug, is_system]
     edges         |-> {}]     \* conversation_categories: [conversation_id, category_id, source, confidence]

\* a plain assignment where the code has COALESCE: the last mention wins
COALESCE_overwrites(old, new) == Some(new)

\* COALESCE(column, value)
COALESCE(old, new) == IF old # None THEN old ELSE Some(new)

ensure_category(d, export_id, name, is_system) ==
    LET slug     == slugify(name)
        existing == {c \in d.categories : c.export_id = export_id /\ c.slug = slug}
    IN  IF existing # {}
        THEN [db |-> d, id |-> (CHOOSE c \in existing : TRUE).id]
        ELSE LET category_id == Cardinality(d.categories) + 1
             IN  [db |-> [d EXCEPT !.categories = @ \cup
                             {[id |-> category_id, export_id |-> export_id, name |-> name,
                               slug |-> slug, is_system |-> is_system]}],
                  id |-> category_id]

\* INSERT OR IGNORE INTO conversation_categories: the primary key is the pair
insert_edge_or_ignore(d, conversation_id, category_id, source, confidence) ==
    IF \E e \in d.edges : e.conversation_id = conversation_id /\ e.category_id = category_id
    THEN d
    ELSE [d EXCEPT !.edges = @ \cup
            {[conversation_id |-> conversation_id, category_id |-> category_id,
              source |-> source, confidence |-> confidence]}]

\* UPDATE assets SET conversation_id = COALESCE(..), message_id = COALESCE(..) for every
\* asset whose lower-cased file name occurs in the lower-cased text
link_assets(d, conv_id, msg_id, lowered, file_map) ==
    LET matched == UNION {Range(file_map[f]) : f \in {g \in DOMAIN file_map : Contains(g, lowered)}}
    IN  [d EXCEPT !.assets =
            {IF a.id \in matched
             THEN [a EXCEPT !.conversation_id = COALESCE(@, conv_id),
                            !.message_id = COALESCE(@, msg_id)]
             ELSE a : a \in @}]

\* "\n".join(str(p) for p in parts if p is not None).strip()
message_text(msg) ==
    LET present == SelectSeq(msg.parts, LAMBDA p : p # None)
    IN  Strip(JoinLines([i \in 1..Len(present) |-> present[i][1]]), WHITESPACE)

\* the loop over sorted(nodes): one message row each, then the links of its text
RECURSIVE insert_messages(_, _, _, _, _, _)
insert_messages(d, export_id, conv_id, msgs, file_map, full_text_parts) ==
    IF msgs = <<>> THEN [db |-> d, full_text_parts |-> full_text_parts]
    ELSE LET msg      == Head(msgs)
             text     == message_text(msg)
             role     == IF msg.role = None \/ msg.role = Some("") THEN "unknown" ELSE msg.role[1]
             msg_id   == Len(d.messages) + 1
             msg_time == parse_iso_or_none(msg.create_time)
             d1 == [d EXCEPT !.messages = Append(@,
                      [id |-> msg_id, export_id |-> export_id, conversation_id |-> conv_id,
                       role |-> role, content_text |-> text, created_at |-> msg_time])]
             d2 == IF text # <<>>
                   THEN link_assets(d1, conv_id, msg_id, Lower(text), file_map)
                   ELSE d1
         IN  insert_messages(d2, export_id, conv_id, Tail(msgs), file_map,
                             IF text # <<>> THEN Append(full_text_parts, text) ELSE full_text_parts)

\* any(kw in conversation_text for kw in keywords)
rule_matches(rule, conversation_text) ==
    \E kw \in Range(rule.keywords) : Contains(kw, conversation_text)

\* the loop over CATEGORY_RULES from rule i on
RECURSIVE apply_rules(_, _, _, _, _)
apply_rules(d, export_id, conv_id, conversation_text, i) ==
    IF i > Len(CATEGORY_RULES) THEN d
    ELSE IF rule_matches(CATEGORY_RULES[i], conversation_text)
    THEN LET ens == ensure_category(d, export_id, CATEGORY_RULES[i].name, 1)
         IN  apply_rules(insert_edge_or_ignore(ens.db, conv_id, ens.id, "auto", Some(1)),
                         export_id, conv_id, conversation_text, i + 1)
    ELSE apply_rules(d, export_id, conv_id, conversation_text, i + 1)

\* categorisation without the fallback to "uncategorized"
categorize_without_fallback(d, export_id, conv_id, conversation_text) ==
    apply_rules(d, export_id, conv_id, conversation_text, 1)

\* lines 300-322: the rules, then the fallback when matched_any stayed False
categorize(d, export_id, conv_id, conversation_text) ==
    LET matched_any == \E i \in 1..Len(CATEGORY_RULES) :
                          rule_matches(CATEGORY_RULES[i], conversation_text)
        d1 == apply_rules(d, export_id, conv_id, conversation_text, 1)
    IN  IF matched_any THEN d1
        ELSE LET ens == ensure_category(d1, export_id, UNCATEGORIZED, 1)
             IN  insert_edge_or_ignore(ens.db, conv_id, ens.id, "auto", Some(1))

(* One iteration of "for conv in payload".  A manifest record is [k, id,     *)
(* title, create_time, mapping]: k = "dict", or "scalar" for an item that is *)
(* not a JSON object.  The title is [k, v]: "none", "str" (v its text) or    *)
(* "num" (a number, v its digits).  mapping is the sequence of the nodes'    *)
(* message payloads in manifest order, each [k, role, create_time, parts],   *)
(* k = "none" for a node without message.                                    *)
process_conversation(d, export_id, conv, file_map) ==
    IF conv.k # "dict"
    THEN [db |-> d, raised |-> Some("'str' object has no attribute 'get'")]
    ELSE LET conv_id == Cardinality(d.conversations) + 1
             title   == IF conv.title.k = "none" \/ conv.title.v = <<>> THEN UNTITLED
                        ELSE conv.title.v
             d1 == [d EXCEPT !.conversations = @ \cup
                      {[id |-> conv_id, export_id |-> export_id, external_id |-> conv.id,
                        title |-> title,
                        conversation_date |-> parse_iso_or_none(conv.create_time)]}]
             nodes == SelectSeq(conv.mapping, LAMBDA n : n.k # "none")
             ins   == insert_messages(d1, export_id, conv_id, sorted_nodes(nodes), file_map,
                                      <<title>>)
         IN  IF conv.title.k = "num"
             THEN [db |-> ins.db,
                   raised |-> Some("sequence item 0: expected str instance, int found")]
             ELSE [db |-> categorize(ins.db, export_id, conv_id,
                                     Lower(JoinLines(ins.full_text_parts))),
                   raised |-> None]

----------------------------------------------------------------------------
(* Bounds and inputs *)

MaxExports == 1

MaxOps == 1

\* tempfile.TemporaryDirectory(): the directory safe_extract extracts to
EXTRACT_TO == << <<"t","m","p">> >>

\* the file system parse_export starts from: the root and the fresh temporary directory
FreshFs ==
    {[path |-> <<>>, kind |-> "dir", data |-> NoData],
     [path |-> EXTRACT_TO, kind |-> "dir", data |-> NoData]}

Rel(segs)  == [abs |-> FALSE, segs |-> segs, dir |-> FALSE]
RelDir(segs) == [abs |-> FALSE, segs |-> segs, dir |-> TRUE]
Abs(segs)  == [abs |-> TRUE, segs |-> segs, dir |-> FALSE]

Blob == [k |-> "blob", items |-> <<>>]
JsonList(items) == [k |-> "list", items |-> items]

NoTime == [k |-> "none", v |-> 0]
Num(v) == [k |-> "num", v |-> v]
BadTime == [k |-> "text", v |-> 0]

Msg(create_time, parts) ==
    [k |-> "msg", role |-> Some("user"), create_time |-> create_time, parts |-> parts]
NoMsg == [k |-> "none", role |-> None, create_time |-> NoTime, parts |-> <<>>]

Conv(title, mapping) ==
    [k |-> "dict", id |-> Some("c"), title |-> title, create_time |-> Num(19675),
     mapping |-> mapping]
ScalarItem ==
    [k |-> "scalar", id |-> None, title |-> [k |-> "none", v |-> <<>>], create_time |-> NoTime,
     mapping |-> <<>>]

Title(v) == [k |-> "str", v |-> v]
NoTitle == [k |-> "none", v |-> <<>>]
NumTitle == [k |-> "num", v |-> <<"5">>]

A_PNG == <<"a",".","P","N","G">>
R_MD == <<"r",".","m","d">>
D == <<"d">>

T_DOG == <<"D","o","g">>
T_SEE == <<"s","e","e"," ","A",".","p","n","g">>
T_VET == <<" ","V","e","t"," ","a",".","p","n","g","\n">>
T_MENU == <<"m","e","n","u">>
T_HI == <<"h","i">>

ConvDog ==
    Conv(Title(T_DOG),
         << Msg(Num(19676), <<Some(T_VET)>>), NoMsg, Msg(Num(19675), <<Some(T_SEE), None>>),
            Msg(NoTime, <<None, Some(T_MENU)>>), Msg(BadTime, <<None>>) >>)
ConvPlain == Conv(NoTitle, << Msg(BadTime, <<Some(T_HI), Some(T_SEE)>>) >>)
ConvMenu == Conv(Title(T_HI), << Msg(Num(0), <<Some(T_MENU)>>) >>)
ConvNumTitle == Conv(NumTitle, << Msg(Num(1), <<Some(T_SEE)>>) >>)
ConvTimes ==
    Conv(NoTitle, << Msg(Num(MAX_DAY + 1), <<Some(T_HI)>>), Msg(Num(1), <<Some(T_HI)>>),
                     Msg(Num(MIN_DAY - 1), <<Some(T_HI)>>) >>)

Manifest(items) == [filename |-> Rel(<<MANIFEST_NAME>>), data |-> JsonList(items)]
File(filename) == [filename |-> filename, data |-> Blob]

\* the archives an upload may carry
ArchivePool ==
    { \* a well-formed export: two conversations, two assets of one name, an ignored file,
      \* and two members that would escape the destination
      [corrupt |-> FALSE,
       members |-> << File(Rel(<<DOTDOT, A_PNG>>)), Manifest(<<ConvDog, ConvPlain>>),
                      File(Rel(<<A_PNG>>)), File(Rel(<<D, DOT, A_PNG>>)), File(Abs(<<R_MD>>)),
                      File(Rel(<<R_MD>>)) >>],
      \* no manifest: the only one is a member that is skipped
      [corrupt |-> FALSE,
       members |-> << [filename |-> Rel(<<DOTDOT, MANIFEST_NAME>>), data |-> JsonList(<<>>)],
                      File(Rel(<<A_PNG>>)) >>],
      \* not a zip file
      [corrupt |-> TRUE, members |-> <<>>],
      \* a manifest that is a JSON object, one that is not JSON, one that is a directory
      [corrupt |-> FALSE,
       members |-> << [filename |-> Rel(<<MANIFEST_NAME>>), data |-> [k |-> "object", items |-> <<>>]] >>],
      [corrupt |-> FALSE,
       members |-> << [filename |-> Rel(<<MANIFEST_NAME>>), data |-> [k |-> "garbage", items |-> <<>>]],
                      [filename |-> RelDir(<<D, MANIFEST_NAME>>), data |-> NoData] >>],
      \* a record that is not an object after a good one, and a title that is a number
      [corrupt |-> FALSE,
       members |-> << File(Rel(<<A_PNG>>)), Manifest(<<ConvMenu, ScalarItem>>) >>],
      [corrupt |-> FALSE,
       members |-> << File(Rel(<<A_PNG>>)), Manifest(<<ConvNumTitle>>) >>],
      \* a member below a member that is a file
      [corrupt |-> FALSE,
       members |-> << Manifest(<<>>), File(Rel(<<D>>)), File(Rel(<<D, A_PNG>>)) >>],
      \* create_time values outside the calendar
      [corrupt |-> FALSE, members |-> << Manifest(<<ConvTimes>>) >>] }

\* the names an operator may type
NamePool == { T_DOG, <<"!">> }

----------------------------------------------------------------------------
(* State *)

IdleLoc ==
    [export_id |-> 0, zip |-> [corrupt |-> FALSE, members |-> <<>>], zi |-> 0, tmp |-> {},
     payload |-> <<>>, todo |-> {}, file_map |-> <<>>, ci |-> 0]

NoResp == [op |-> "none", status |-> 0, conversation_id |-> 0, missing |-> FALSE]

Running == [k |-> "running", msg |-> ""]

Init ==
    /\ db = EmptyDb
    /\ tx = EmptyDb
    /\ pc = "idle"
    /\ loc = IdleLoc
    /\ outcome = <<>>
    /\ resp = NoResp
    /\ ops = 0

----------------------------------------------------------------------------
(* upload_export and parse_export *)

\* parse_export without its first update
mark_processing_skipped(t, export_id) == t

\* UPDATE exports SET status = 'processing'
mark_processing(t, export_id) ==
    [t EXCEPT !.exports[export_id].status = "processing"]

\* UPDATE exports SET status = 'ready', error_message = NULL
mark_ready(t, export_id) ==
    [t EXCEPT !.exports[export_id] = [status |-> "ready", error_message |-> None]]

\* a handler that records the status and drops the message
mark_failed_drops_message(t, export_id, msg) ==
    [t EXCEPT !.exports[export_id].status = "failed"]

\* UPDATE exports SET status = 'failed', error_message = str(exc)
mark_failed(t, export_id, msg) ==
    [t EXCEPT !.exports[export_id] = [status |-> "failed", error_message |-> Some(msg)]]

\* conn.commit(): the pending writes of the connection become the committed state
Commit(t) == db' = t /\ tx' = t

\* an except clause that rolls the pending rows back before it records the failure
Raise_after_rollback(t, msg) ==
    /\ Commit(mark_failed(db, loc.export_id, msg))
    /\ outcome' = [outcome EXCEPT ![loc.export_id] = [k |-> "raised", msg |-> msg]]
    /\ pc' = "idle"
    /\ loc' = IdleLoc

\* the except clause of parse_export (update, commit, raise) and its finally clause
Raise(t, msg) ==
    /\ Commit(mark_failed(t, loc.export_id, msg))
    /\ outcome' = [outcome EXCEPT ![loc.export_id] = [k |-> "raised", msg |-> msg]]
    /\ pc' = "idle"
    /\ loc' = IdleLoc

\* upload_export up to its call of parse_export: the export row is inserted and committed
upload_export(archive) ==
    /\ pc = "idle"
    /\ Len(db.exports) < MaxExports
    /\ Commit([db EXCEPT !.exports = Append(@, [status |-> "uploaded", error_message |-> None])])
    /\ outcome' = Append(outcome, Running)
    /\ pc' = "begin"
    /\ loc' = [IdleLoc EXCEPT !.export_id = Len(db.exports) + 1, !.zip = archive]
    /\ UNCHANGED <<resp, ops>>

\* parse_export, lines 178-186
begin_processing ==
    /\ pc = "begin"
    /\ Commit(mark_processing(tx, loc.export_id))
    /\ pc' = "open"
    /\ loc' = [loc EXCEPT !.tmp = FreshFs]
    /\ UNCHANGED <<outcome, resp, ops>>

\* safe_extract: zipfile.ZipFile(zip_path)
open_zip ==
    /\ pc = "open"
    /\ IF loc.zip.corrupt
       THEN Raise(tx, "File is not a zip file")
       ELSE /\ pc' = IF loc.zip.members = <<>> THEN "manifest" ELSE "extract"
            /\ loc' = [loc EXCEPT !.zi = 1]
            /\ UNCHANGED <<db, tx, outcome>>
    /\ UNCHANGED <<resp, ops>>

\* safe_extract: one member of zf.infolist()
extract_step ==
    /\ pc = "extract"
    /\ LET r == extract_member(loc.tmp, EXTRACT_TO, loc.zip.members[loc.zi])
       IN  IF r.raised # None
           THEN Raise(tx, r.raised[1])
           ELSE /\ loc' = [loc EXCEPT !.tmp = r.fs, !.zi = @ + 1]
                /\ pc' = IF loc.zi = Len(loc.zip.members) THEN "manifest" ELSE "extract"
                /\ UNCHANGED <<db, tx, outcome>>
    /\ UNCHANGED <<resp, ops>>

\* tmp_path.rglob(pattern): every node below the temporary directory
Below(fs) == {n \in fs : IsPrefix(EXTRACT_TO, n.path) /\ n.path # EXTRACT_TO}

\* parse_export, lines 193-200; rglob yields in directory order, so any match may come first
load_manifest ==
    /\ pc = "manifest"
    /\ LET found == {n \in Below(loc.tmp) : n.path[Len(n.path)] = MANIFEST_NAME}
       IN  IF found = {}
           THEN Raise(tx, "Missing conversations.json in ZIP export")
           ELSE \E conv_file \in found :
                  IF conv_file.kind = "dir"
                  THEN Raise(tx, "[Errno 21] Is a directory")
                  ELSE IF conv_file.data.k \notin {"list", "object"}
                  THEN Raise(tx, "Expecting value: line 1 column 1 (char 0)")
                  ELSE IF conv_file.data.k # "list"
                  THEN Raise(tx, "conversations.json must contain a list")
                  ELSE LET todo == {n \in Below(loc.tmp) : n.kind = "file" /\ n # conv_file}
                       IN  /\ loc' = [loc EXCEPT !.payload = conv_file.data.items,
                                                 !.todo = todo, !.ci = 1]
                           /\ pc' = IF todo = {} THEN "convs" ELSE "assets"
                           /\ UNCHANGED <<db, tx, outcome>>
    /\ UNCHANGED <<resp, ops>>

\* the INSERT INTO assets of one file and its entry in file_map
insert_asset(t, export_id, file, asset_type) ==
    [t EXCEPT !.assets = @ \cup
        {[id |-> Cardinality(t.assets) + 1, export_id |-> export_id,
          conversation_id |-> None, message_id |-> None, asset_type |-> asset_type,
          original_name |-> file.path[Len(file.path)],
          storage_path |-> SubSeq(file.path, Len(EXTRACT_TO) + 1, Len(file.path))]}]

\* file_map.setdefault(file.name.lower(), []).append(asset_id)
file_map_add(file_map, name, asset_id) ==
    IF Lower(name) \in DOMAIN file_map
    THEN [file_map EXCEPT ![Lower(name)] = Append(@, asset_id)]
    ELSE file_map @@ (Lower(name) :> <<asset_id>>)

\* parse_export, lines 204-233: one file of rglob("*"), in directory order; copy2 may fail
register_asset ==
    /\ pc = "assets"
    /\ \E file \in loc.todo, copied \in BOOLEAN :
          IF ~copied
          THEN Raise(tx, "[Errno 28] No space left on device")
          ELSE LET name == file.path[Len(file.path)]
                   asset_type == classify_asset(name)
                   rest == loc.todo \ {file}
               IN  /\ tx' = IF asset_type = None THEN tx
                            ELSE insert_asset(tx, loc.export_id, file, asset_type[1])
                   /\ loc' = [loc EXCEPT !.todo = rest,
                                !.file_map = IF asset_type = None THEN @
                                             ELSE file_map_add(@, name, Cardinality(tx.assets) + 1)]
                   /\ pc' = IF rest = {} THEN "convs" ELSE "assets"
                   /\ UNCHANGED <<db, outcome>>
    /\ UNCHANGED <<resp, ops>>

\* a loop that commits after every conversation
conversation_step_commits ==
    /\ pc = "convs"
    /\ loc.ci <= Len(loc.payload)
    /\ LET r == process_conversation(tx, loc.export_id, loc.payload[loc.ci], loc.file_map)
       IN  IF r.raised # None
           THEN Raise(r.db, r.raised[1])
           ELSE /\ Commit(r.db)
                /\ loc' = [loc EXCEPT !.ci = @ + 1]
                /\ UNCHANGED <<pc, outcome>>
    /\ UNCHANGED <<resp, ops>>

\* parse_export, lines 235-322: one record of the payload
conversation_step ==
    /\ pc = "convs"
    /\ loc.ci <= Len(loc.payload)
    /\ LET r == process_conversation(tx, loc.export_id, loc.payload[loc.ci], loc.file_map)
       IN  IF r.raised # None
           THEN Raise(r.db, r.raised[1])
           ELSE /\ tx' = r.db
                /\ loc' = [loc EXCEPT !.ci = @ + 1]
                /\ UNCHANGED <<db, pc, outcome>>
    /\ UNCHANGED <<resp, ops>>

\* parse_export, lines 324-328 and the return to upload_export
finish_ready ==
    /\ pc = "convs"
    /\ loc.ci > Len(loc.payload)
    /\ Commit(mark_ready(tx, loc.export_id))
    /\ outcome' = [outcome EXCEPT ![loc.export_id] = [k |-> "returned", msg |-> ""]]
    /\ pc' = "idle"
    /\ loc' = IdleLoc
    /\ UNCHANGED <<resp, ops>>

----------------------------------------------------------------------------
(* Operator endpoints.  Each opens its own connection: it reads the         *)
(* committed state, and it can write only while no other connection holds   *)
(* pending writes.                                                          *)

\* rename_category over a table without UNIQUE(export_id, slug)
rename_result_unchecked(d, export_id, category_id, name) ==
    LET category == {c \in d.categories : c.id = category_id /\ c.export_id = export_id}
        row      == CHOOSE c \in category : TRUE
    IN  IF category = {} THEN [db |-> d, status |-> 404]
        ELSE [db |-> [d EXCEPT !.categories = (@ \ {row}) \cup
                        {[row EXCEPT !.name = name, !.slug = slugify(name), !.is_system = 0]}],
              status |-> 303]

\* rename_category: [db, status]; 500 is the IntegrityError of UNIQUE(export_id, slug)
rename_result(d, export_id, category_id, name) ==
    LET category == {c \in d.categories : c.id = category_id /\ c.export_id = export_id}
        row      == CHOOSE c \in category : TRUE
        taken    == \E c \in d.categories :
                       c.id # category_id /\ c.export_id = row.export_id /\ c.slug = slugify(name)
    IN  IF category = {} THEN [db |-> d, status |-> 404]
        ELSE IF taken THEN [db |-> d, status |-> 500]
        ELSE [db |-> [d EXCEPT !.categories = (@ \ {row}) \cup
                        {[row EXCEPT !.name = name, !.slug = slugify(name), !.is_system = 0]}],
              status |-> 303]

\* move_conversation without its DELETE
move_result_keeps_edges(d, export_id, conversation_id, category_id, new_category) ==
    LET conv   == {c \in d.conversations : c.id = conversation_id /\ c.export_id = export_id}
        named  == new_category # None /\ new_category[1] # <<>>
        ens    == IF named THEN ensure_category(d, export_id, new_category[1], 0)
                  ELSE [db |-> d, id |-> 0]
        target == IF named THEN Some(ens.id) ELSE category_id
    IN  IF conv = {} THEN [db |-> d, status |-> 404]
        ELSE IF target = None THEN [db |-> d, status |-> 400]
        ELSE [db |-> insert_edge_or_ignore(ens.db, conversation_id, target[1], "manual", None),
              status |-> 303]

\* move_conversation: [db, status]
move_result(d, export_id, conversation_id, category_id, new_category) ==
    LET conv   == {c \in d.conversations : c.id = conversation_id /\ c.export_id = export_id}
        named  == new_category # None /\ new_category[1] # <<>>
        ens    == IF named THEN ensure_category(d, export_id, new_category[1], 0)
                  ELSE [db |-> d, id |-> 0]
        target == IF named THEN Some(ens.id) ELSE category_id
        d1     == [ens.db EXCEPT !.edges = {e \in @ : e.conversation_id # conversation_id}]
    IN  IF conv = {} THEN [db |-> d, status |-> 404]
        ELSE IF target = None THEN [db |-> d, status |-> 400]
        ELSE [db |-> insert_edge_or_ignore(d1, conversation_id, target[1], "manual", None),
              status |-> 303]

CategoryIds(d) == 1..(Cardinality(d.categories) + 1)

ConversationIds(d) == 1..(Cardinality(d.conversations) + 1)

\* the form fields of a move: a category id alone, a new name alone (possibly empty),
\* both, or neither
MoveForms(d) ==
    {[category_id |-> c, new_category |-> None] :
        c \in {None} \cup {Some(i) : i \in CategoryIds(d)}}
    \cup {[category_id |-> None, new_category |-> n] :
        n \in {Some(<<>>)} \cup {Some(m) : m \in NamePool}}
    \cup {[category_id |-> Some(1), new_category |-> Some(m)] : m \in NamePool}

rename_category(export_id, category_id, name) ==
    /\ tx = db
    /\ ops < MaxOps
    /\ LET r == rename_result(db, export_id, category_id, name)
       IN  /\ Commit(r.db)
           /\ resp' = [op |-> "rename", status |-> r.status, conversation_id |-> 0,
                       missing |-> ~\E c \in db.categories :
                                       c.id = category_id /\ c.export_id = export_id]
    /\ ops' = ops + 1
    /\ UNCHANGED <<pc, loc, outcome>>

move_conversation(export_id, conversation_id, category_id, new_category) ==
    /\ tx = db
    /\ ops < MaxOps
    /\ LET r == move_result(db, export_id, conversation_id, category_id, new_category)
       IN  /\ Commit(r.db)
           /\ resp' = [op |-> "move", status |-> r.status, conversation_id |-> conversation_id,
                       missing |->
                          \/ ~\E c \in db.conversations :
                                c.id = conversation_id /\ c.export_id = export_id
                          \/ /\ category_id # None
                             /\ ~\E c \in db.categories :
                                   c.id = category_id[1] /\ c.export_id = export_id]
    /\ ops' = ops + 1
    /\ UNCHANGED <<pc, loc, outcome>>

----------------------------------------------------------------------------

Next ==
    \/ \E archive \in ArchivePool : upload_export(archive)
    \/ begin_processing
    \/ open_zip
    \/ extract_step
    \/ load_manifest
    \/ register_asset
    \/ conversation_step
    \/ finish_ready
    \/ \E export_id \in 1..Len(db.exports), category_id \in CategoryIds(db), name \in NamePool :
          rename_category(export_id, category_id, name)
    \/ \E export_id \in 1..Len(db.exports), conversation_id \in ConversationIds(db),
          form \in MoveForms(db) :
          move_conversation(export_id, conversation_id, form.category_id, form.new_category)

Spec == Init /\ [][Next]_vars

----------------------------------------------------------------------------
(* safe_extract over every archive of up to MaxMembers members *)

MaxMembers == 3

Garbage == [k |-> "garbage", items |-> <<>>]

MemberPool ==
    { File(Rel(<<A_PNG>>)),
      [filename |-> Rel(<<A_PNG>>), data |-> Garbage],
      [filename |-> RelDir(<<D>>), data |-> NoData],
      File(Rel(<<D>>)),
      File(Rel(<<D, DOT, A_PNG>>)),
      File(Rel(<<DOTDOT, A_PNG>>)),
      File(Rel(<<D, DOTDOT, DOTDOT, R_MD>>)),
      [filename |-> RelDir(<<DOTDOT, D>>), data |-> NoData],
      File(Abs(<<R_MD>>)) }

RECURSIVE SeqsUpTo(_, _)
SeqsUpTo(S, n) ==
    IF n = 0 THEN {<<>>}
    ELSE LET shorter == SeqsUpTo(S, n - 1)
         IN  shorter \cup {Append(s, x) : s \in {r \in shorter : Len(r) = n - 1}, x \in S}

ExtractArchives ==
    {[corrupt |-> FALSE, members |-> m] : m \in SeqsUpTo(MemberPool, MaxMembers) \ {<<>>}}

NextExtract ==
    \/ db.exports = <<>> /\ \E archive \in ExtractArchives : upload_export(archive)
    \/ begin_processing
    \/ open_zip
    \/ extract_step

SpecExtract == Init /\ [][NextExtract]_vars

----------------------------------------------------------------------------
(* Normalisation of one conversation over every mapping of up to MaxNodes nodes *)

MaxNodes == 3

TimePool ==
    { NoTime, BadTime, Num(MIN_DAY - 1), Num(MIN_DAY), Num(0 - 1), Num(0), Num(19675),
      Num(MAX_DAY), Num(MAX_DAY + 1) }

NodePool == {NoMsg} \cup {Msg(ct, <<Some(T_HI)>>) : ct \in TimePool}

NormalizeArchives ==
    {[corrupt |-> FALSE, members |-> << Manifest(<<Conv(NoTitle, mapping)>>) >>] :
        mapping \in SeqsUpTo(NodePool, MaxNodes)}

NextNormalize ==
    \/ db.exports = <<>> /\ \E archive \in NormalizeArchives : upload_export(archive)
    \/ begin_processing
    \/ open_zip
    \/ extract_step
    \/ load_manifest
    \/ conversation_step
    \/ finish_ready

SpecNormalize == Init /\ [][NextNormalize]_vars

----------------------------------------------------------------------------
(* Properties *)

ExportIds(d) == 1..Len(d.exports)

StatusSteps ==
    {<<"uploaded", "processing">>, <<"processing", "ready">>, <<"processing", "failed">>}

\* the tables other than exports
Rows(d) == <<d.conversations, d.messages, d.assets, d.categories, d.edges>>

LegalStatusStep(old, new) ==
    /\ Len(new.exports) >= Len(old.exports)
    /\ \A e \in ExportIds(new) :
          IF e <= Len(old.exports)
          THEN \/ new.exports[e].status = old.exports[e].status
               \/ <<old.exports[e].status, new.exports[e].status>> \in StatusSteps
          ELSE new.exports[e].status = "uploaded"

\* C1: every change of an export's status, committed or pending, is uploaded ->
\* processing, processing -> ready or processing -> failed, and a new export starts
\* as uploaded; so nothing leaves ready or failed and nothing returns to uploaded.
C1_StatusTransitions == [][LegalStatusStep(db, db') /\ LegalStatusStep(tx, tx')]_vars

C1_Witness ==
    \E e \in ExportIds(db) : db.exports[e].status = "ready" /\ pc = "idle" /\ ops > 0

\* C2: once parse_export has raised for an export, its committed row is failed with
\* the message of the exception that was raised; and when no conversations.json was
\* extracted, the step that looks for it ends the call with the export failed and the
\* message "Missing conversations.json in ZIP export".
C2_FailureRecorded ==
    /\ [](\A e \in 1..Len(outcome) :
            outcome[e].k = "raised" =>
                db.exports[e] = [status |-> "failed", error_message |-> Some(outcome[e].msg)])
    /\ [][(/\ pc = "manifest"
           /\ pc' # "manifest"
           /\ ~\E n \in Below(loc.tmp) : n.path[Len(n.path)] = MANIFEST_NAME)
          => /\ db'.exports[loc.export_id] =
                  [status |-> "failed",
                   error_message |-> Some("Missing conversations.json in ZIP export")]
             /\ outcome'[loc.export_id] =
                  [k |-> "raised", msg |-> "Missing conversations.json in ZIP export"]]_vars

C2_Witness ==
    \E e \in 1..Len(outcome) :
        /\ outcome[e] = [k |-> "raised", msg |-> "Missing conversations.json in ZIP export"]
        /\ db.exports[e].status = "failed"

\* C3 as stated: no status update is ever pending, and the commit that changes a
\* committed status changes no asset, conversation, message, category or edge row.
C3_StatusCommitAlone ==
    /\ [](tx.exports = db.exports)
    /\ [][(\E e \in ExportIds(db) : db'.exports[e].status # db.exports[e].status)
          => Rows(db') = Rows(db)]_vars

\* C3 as amended: no status update is ever pending; the commit of processing changes
\* no other row; and the rows parse_export writes are committed only by the commit
\* that turns its export ready or failed, which commits all of them.
C3_CommitPoints ==
    /\ [](tx.exports = db.exports)
    /\ [][(\E e \in ExportIds(db) :
              db'.exports[e].status # db.exports[e].status
              /\ db'.exports[e].status = "processing")
          => Rows(db') = Rows(db) /\ tx' = db']_vars
    /\ [][(ops' = ops /\ Rows(db') # Rows(db))
          => /\ db.exports[loc.export_id].status = "processing"
             /\ db'.exports[loc.export_id].status \in {"ready", "failed"}
             /\ db' = tx'
             /\ Rows(tx) # Rows(db)]_vars

C3_Witness ==
    \E e \in ExportIds(db) :
        /\ db.exports[e].status = "ready"
        /\ \E c \in db.conversations : c.export_id = e
        /\ \E m \in Range(db.messages) : m.export_id = e
        /\ \E x \in db.edges : \E c \in db.conversations :
              c.export_id = e /\ x.conversation_id = c.id

\* the lower-cased title-plus-messages text of a conversation, from its rows
ConversationText(d, c) ==
    LET own   == SelectSeq(d.messages,
                           LAMBDA m : m.conversation_id = c.id /\ m.content_text # <<>>)
    IN  Lower(JoinLines(<<c.title>> \o [i \in 1..Len(own) |-> own[i].content_text]))

EdgesOf(d, conversation_id) == {x \in d.edges : x.conversation_id = conversation_id}

CategoryNames(d, export_id, edges) ==
    {c.name : c \in {k \in d.categories :
                        k.export_id = export_id /\ \E x \in edges : x.category_id = k.id}}

\* C4: while parse_export is in its loop over the payload, every conversation it has
\* inserted has a non-empty set of edges, all auto with confidence 1.0: one to the
\* category of each rule with a keyword in the conversation's lower-cased text and
\* no other, or, when no rule matches, exactly one, to "uncategorized".
C4_AutoCategories ==
    pc = "convs" =>
        \A c \in {k \in tx.conversations : k.export_id = loc.export_id} :
            LET text    == ConversationText(tx, c)
                matched == {CATEGORY_RULES[i].name :
                              i \in {j \in 1..Len(CATEGORY_RULES) :
                                        rule_matches(CATEGORY_RULES[j], text)}}
                edges   == EdgesOf(tx, c.id)
            IN  /\ edges # {}
                /\ \A x \in edges : x.source = "auto" /\ x.confidence = Some(1)
                /\ CategoryNames(tx, loc.export_id, edges) =
                      (IF matched = {} THEN {UNCATEGORIZED} ELSE matched)
                /\ Cardinality(edges) = IF matched = {} THEN 1 ELSE Cardinality(matched)

C4_Witness ==
    /\ pc = "convs"
    /\ \E c, k \in {r \in tx.conversations : r.export_id = loc.export_id} :
          /\ Cardinality(EdgesOf(tx, c.id)) = 2
          /\ CategoryNames(tx, loc.export_id, EdgesOf(tx, k.id)) = {UNCATEGORIZED}

EnsureNames ==
    NamePool \cup {UNCATEGORIZED} \cup {CATEGORY_RULES[i].name : i \in 1..Len(CATEGORY_RULES)}

\* C6: in the committed and in the pending state no two categories of one export
\* share a slug; and ensure_category with a name whose slug a category of the export
\* already has returns that category's id and leaves the tables as they are.
C6_SlugUnique ==
    \A d \in {db, tx} :
        /\ \A c, k \in d.categories :
              (c.export_id = k.export_id /\ c.slug = k.slug) => c = k
        /\ \A e \in ExportIds(d), name \in EnsureNames, is_system \in {0, 1} :
              \A c \in d.categories :
                  (c.export_id = e /\ c.slug = slugify(name)) =>
                      ensure_category(d, e, name, is_system) = [db |-> d, id |-> c.id]

C6_Witness ==
    /\ resp.op = "rename"
    /\ resp.status = 500
    /\ \E c \in db.categories : c.slug = slugify(T_DOG)

\* the messages of an export that mention a file name, by position in insertion order
Mentions(d, a) ==
    {i \in 1..Len(d.messages) :
        /\ d.messages[i].export_id = a.export_id
        /\ Contains(Lower(a.original_name), Lower(d.messages[i].content_text))}

\* C8: an asset is linked to the first inserted message of its export whose
\* lower-cased text contains its lower-cased file name, and unlinked when there is
\* none; and a link that is set is never changed by a later step.
C8_FirstMentionWins ==
    /\ [](\A a \in tx.assets :
            LET mentions == Mentions(tx, a)
                first    == CHOOSE i \in mentions : \A j \in mentions : i <= j
            IN  IF mentions = {}
                THEN a.conversation_id = None /\ a.message_id = None
                ELSE /\ a.message_id = Some(tx.messages[first].id)
                     /\ a.conversation_id = Some(tx.messages[first].conversation_id))
    /\ [][\A a \in tx.assets : a.message_id # None => a \in tx'.assets]_vars

C8_Witness ==
    \E a \in db.assets :
        /\ a.message_id # None
        /\ \E i \in Mentions(db, a) :
              /\ db.messages[i].id > a.message_id[1]
              /\ db.messages[i].conversation_id # a.conversation_id[1]
        /\ \E i \in Mentions(db, a) :
              /\ db.messages[i].id > a.message_id[1]
              /\ db.messages[i].conversation_id = a.conversation_id[1]

\* C9: a rename_category or move_conversation request that names a category id or a
\* conversation id that is not in the given export is answered 404 and changes no table.
C9_NotFoundRejected ==
    [][(ops' = ops + 1 /\ resp'.missing) => (resp'.status = 404 /\ db' = db)]_vars


\* ISO timestamps compared as strings
IsoLeq(a, b) ==
    \/ a[1] < b[1]
    \/ a[1] = b[1] /\ a[2] < b[2]
    \/ a[1] = b[1] /\ a[2] = b[2] /\ a[3] <= b[3]

\* C7: of two messages of one conversation, the one inserted first has the smaller or
\* equal persisted timestamp, and it has a null timestamp only if the later one has too.
C7_TimestampOrder ==
    \A i, j \in 1..Len(tx.messages) :
        (i < j /\ tx.messages[i].conversation_id = tx.messages[j].conversation_id) =>
            LET a == tx.messages[i].created_at
                b == tx.messages[j].created_at
            IN  /\ a = None => b = None
                /\ (a # None /\ b # None) => IsoLeq(a[1], b[1])

\* a member name that is absolute or has a parent-directory segment
HasEscape(filename) ==
    filename.abs \/ \E i \in 1..Len(filename.segs) : filename.segs[i] = DOTDOT

\* where a member that is not skipped belongs
TargetOf(filename) ==
    EXTRACT_TO \o SelectSeq(filename.segs, LAMBDA s : s # DOT)

\* member i of the archive is in the destination as the archive has it: a directory,
\* or a file with the content of the last member of that name extracted so far
Extracted(fs, members, i, upto) ==
    LET target == TargetOf(members[i].filename)
        same   == {j \in 1..upto : ~HasEscape(members[j].filename)
                                    /\ TargetOf(members[j].filename) = target}
        last   == CHOOSE j \in same : \A k \in same : k <= j
    IN  IF members[i].filename.dir
        THEN [path |-> target, kind |-> "dir", data |-> NoData] \in fs
        ELSE [path |-> target, kind |-> "file", data |-> members[last].data] \in fs

\* C10: safe_extract never has a node outside the destination other than those that
\* were there before; while it has not raised, every member it has passed that has no
\* escaping name is extracted; and passing a member with an escaping name changes no
\* file, raises nothing and goes on to the next member.
C10_SafeExtract ==
    /\ [](\A n \in loc.tmp :
            n \in FreshFs \/ (IsPrefix(EXTRACT_TO, n.path) /\ n.path # EXTRACT_TO))
    /\ [](pc \in {"extract", "manifest"} =>
            \A i \in 1..(loc.zi - 1) :
                ~HasEscape(loc.zip.members[i].filename) =>
                    Extracted(loc.tmp, loc.zip.members, i, loc.zi - 1))
    /\ [][(pc = "extract" /\ HasEscape(loc.zip.members[loc.zi].filename))
          => /\ loc'.tmp = loc.tmp
             /\ loc'.zi = loc.zi + 1
             /\ outcome' = outcome
             /\ db' = db
             /\ pc' \in {"extract", "manifest"}]_vars

C10_Witness ==
    /\ pc = "manifest"
    /\ \E i, j, k \in 1..Len(loc.zip.members) :
          /\ i < k
          /\ j < k
          /\ loc.zip.members[i].filename.abs
          /\ DOTDOT \in Range(loc.zip.members[j].filename.segs)
          /\ ~HasEscape(loc.zip.members[k].filename)
          /\ Extracted(loc.tmp, loc.zip.members, k, Len(loc.zip.members))

\* every row of old is a row of new; an asset row may have gained its link
RowsKept(old, new) ==
    /\ \A a \in old.assets :
          \E b \in new.assets :
              /\ [b EXCEPT !.conversation_id = None, !.message_id = None] =
                    [a EXCEPT !.conversation_id = None, !.message_id = None]
              /\ a.message_id # None =>
                    (b.message_id = a.message_id /\ b.conversation_id = a.conversation_id)
    /\ old.conversations \subseteq new.conversations
    /\ Len(old.messages) <= Len(new.messages)
    /\ \A i \in 1..Len(old.messages) : new.messages[i] = old.messages[i]
    /\ old.categories \subseteq new.categories
    /\ old.edges \subseteq new.edges

\* C11: the step on which parse_export raises commits the failed status together with
\* every asset, conversation, message, category and edge row that was pending before
\* it: none is rolled back and none is left pending.
C11_FailedKeepsRows ==
    [][(\E e \in 1..Len(outcome) : outcome[e].k = "running" /\ outcome'[e].k = "raised")
       => /\ RowsKept(tx, db')
          /\ db'.exports[loc.export_id].status = "failed"
          /\ tx' = db']_vars

C11_Witness ==
    \E e \in 1..Len(outcome) :
        /\ outcome[e].k = "raised"
        /\ db.exports[e].status = "failed"
        /\ \E a \in db.assets : a.export_id = e
        /\ \E c \in db.conversations :
              /\ c.export_id = e
              /\ \E i \in 1..Len(db.messages) : db.messages[i].conversation_id = c.id
              /\ \E x \in db.edges : x.conversation_id = c.id
        /\ \E k \in db.categories : k.export_id = e

====
